---- MODULE Spec2Model ----
(***************************************************************************)
(* Model of src/src/App.tsx: the Unicode & Emoji reference application.    *)
(*                                                                         *)
(* A JavaScript string is a sequence of code units; an ASCII code unit is  *)
(* written as the one-character string of that character, a non-ASCII one  *)
(* as a token such as "u263A".                                             *)
(***************************************************************************)
EXTENDS Integers, Sequences, FiniteSets, TLC

VARIABLES
    dataset,         \* unicodeCategories: the concatenated dataset (immutable)
    search,          \* App state `search`
    activeCategory,  \* App state `activeCategory`
    toast,           \* App state `toast` (Null when no message)
    timers,          \* due times of the pending setTimeout callbacks, oldest first
    now,             \* the host's clock
    lastCall,        \* history: the latest showToast call (message and time)
    sections,        \* per category name: the CategorySection instance's state
    everVisible,     \* history: names whose section has once become visible
    clicks,          \* history: number of section header clicks so far
    clipboardApi,    \* whether navigator.clipboard.writeText exists
    copies,          \* history: one record per copy click, in order
    doc              \* the running exportPDF call: its jsPDF document and progress

vars == <<dataset, search, activeCategory, toast, timers, now, lastCall,
          sections, everVisible, clicks, clipboardApi, copies, doc>>

----------------------------------------------------------------------------
(* Bounds of the model *)

MaxQueryLen == 2        \* longest typed query drawn from QueryAlphabet
MaxItems == 2           \* most items in the first category of a dataset
MaxTablePages == 2      \* most pages one autoTable call lays a table over
MaxTime == 2500         \* the clock stops advancing here
TickStep == 500         \* granularity of the clock
MaxTimers == 2          \* most pending timers (showToast calls not yet expired)
MaxCopies == 2          \* most copy clicks in one session
MaxClicks == 2          \* most section header clicks in one session

(* Program constants *)

ToastDelay == 1500      \* setTimeout(..., 1500)
FirstStartY == 38       \* let startY = 38
PageBreakY == 270       \* if (startY > 270)
TopMarginY == 15        \* startY = 15
HeadingGap == 3         \* startY += 3
TableGap == 8           \* finalY + 8
LastExpandedIdx == 5    \* idx > 5

All == "all"

\* The toast state: null, or a message
Null == [shown |-> FALSE, msg |-> <<>>]
Message(m) == [shown |-> TRUE, msg |-> m]

----------------------------------------------------------------------------
(* Strings *)

UpperLetters == <<"A", "B", "C", "G", "S">>
LowerLetters == <<"a", "b", "c", "g", "s">>

\* String.prototype.toLowerCase on one code unit
LowerUnit(c) ==
    IF \E i \in 1..Len(UpperLetters) : UpperLetters[i] = c
    THEN LowerLetters[CHOOSE i \in 1..Len(UpperLetters) : UpperLetters[i] = c]
    ELSE c

toLowerCase(s) == [i \in 1..Len(s) |-> LowerUnit(s[i])]

IsWhiteSpace(c) == c = " "

RECURSIVE trimStart(_)
trimStart(s) ==
    IF s # <<>> /\ IsWhiteSpace(Head(s)) THEN trimStart(Tail(s)) ELSE s

RECURSIVE trimEnd(_)
trimEnd(s) ==
    IF s # <<>> /\ IsWhiteSpace(s[Len(s)])
    THEN trimEnd(SubSeq(s, 1, Len(s) - 1))
    ELSE s

\* String.prototype.trim
trim(s) == trimEnd(trimStart(s))

\* String.prototype.includes
includes(s, sub) ==
    \E i \in 0..(Len(s) - Len(sub)) : SubSeq(s, i + 1, i + Len(sub)) = sub

DecDigits == <<"0", "1", "2", "3", "4", "5", "6", "7", "8", "9">>
HexDigits == <<"0", "1", "2", "3", "4", "5", "6", "7", "8", "9",
               "a", "b", "c", "d", "e", "f">>

RECURSIVE toStringRadix(_, _)
toStringRadix(n, digits) ==
    IF n < Len(digits)
    THEN <<digits[n + 1]>>
    ELSE toStringRadix(n \div Len(digits), digits)
             \o <<digits[(n % Len(digits)) + 1]>>

\* A slip: the code point rendered in hexadecimal instead of decimal
toStringHex(n) == toStringRadix(n, HexDigits)

\* Number.prototype.toString(): the decimal digits of a code point
toString(n) == toStringRadix(n, DecDigits)

\* The markup encoding `&#${item.code};`
entityCode(item) == <<"&", "#">> \o toString(item.code) \o <<";">>

----------------------------------------------------------------------------
(* The Filter Engine *)

\* The item predicate of filteredCategories
matches(item, searchRaw, searchLower) ==
    \/ includes(toLowerCase(item.description), searchLower)
    \/ includes(item.char, searchRaw)
    \/ includes(entityCode(item), searchLower)
    \/ includes(toString(item.code), searchLower)

WithItems(cat, its) == [cat EXCEPT !.items = its]

\* A slip: the trailing .filter((cat) => cat.items.length > 0) left out
filterKeepEmpty(D, q, c) ==
    LET searchLower == trim(toLowerCase(q))
        picked == SelectSeq(D, LAMBDA cat : c = All \/ cat.name = c)
    IN  [i \in 1..Len(picked) |->
            IF searchLower = <<>> THEN picked[i]
            ELSE WithItems(picked[i],
                     SelectSeq(picked[i].items,
                               LAMBDA item : matches(item, q, searchLower)))]

\* A slip: an off-by-one that never looks at a category's last item
filterSkipLast(D, q, c) ==
    LET searchLower == trim(toLowerCase(q))
        picked == SelectSeq(D, LAMBDA cat : c = All \/ cat.name = c)
        mapped == [i \in 1..Len(picked) |->
            IF searchLower = <<>> THEN picked[i]
            ELSE WithItems(picked[i],
                     SelectSeq(SubSeq(picked[i].items, 1, Len(picked[i].items) - 1),
                               LAMBDA item : matches(item, q, searchLower)))]
    IN  SelectSeq(mapped, LAMBDA cat : Len(cat.items) > 0)

\* filteredCategories as a function of the dataset, the query and the selector
filter(D, q, c) ==
    LET searchLower == trim(toLowerCase(q))
        picked == SelectSeq(D, LAMBDA cat : c = All \/ cat.name = c)
        mapped == [i \in 1..Len(picked) |->
            IF searchLower = <<>> THEN picked[i]
            ELSE WithItems(picked[i],
                     SelectSeq(picked[i].items,
                               LAMBDA item : matches(item, q, searchLower)))]
    IN  SelectSeq(mapped, LAMBDA cat : Len(cat.items) > 0)

\* The memoised value the App renders
filteredCategories == filter(dataset, search, activeCategory)

----------------------------------------------------------------------------
(* The datasets and queries the model draws from *)

Smiley == [char |-> <<"u263A">>, code |-> 9786,
           description |-> <<"S", "m", "i", "l", "e">>]
CapA   == [char |-> <<"A">>, code |-> 65,
           description |-> <<"B", "i", "g", " ", "a">>]
Gap    == [char |-> <<" ">>, code |-> 32,
           description |-> <<"G", "a", "p">>]

ItemPool == {Smiley, CapA, Gap}

Category(n, its) == [name |-> n, icon |-> "i", items |-> its]

SeqsUpTo(S, n) == UNION {[1..k -> S] : k \in 0..n}

\* Two categories: the first with any items of the pool, the second empty or
\* holding the smiley
Datasets ==
    {<<Category("c1", s), Category("c2", t)>> :
        s \in SeqsUpTo(ItemPool, MaxItems), t \in {<<>>, <<Smiley>>}}

\* Three categories for the exporter: one is empty in the data
ExportDataset ==
    <<Category("c1", <<CapA>>), Category("c2", <<>>), Category("c3", <<Smiley, Gap>>)>>

\* Seven categories for the renderer: default expansion covers the first six
SevenCategories ==
    <<Category("c1", <<CapA>>), Category("c2", <<Smiley>>),
      Category("c3", <<Smiley>>), Category("c4", <<Smiley>>),
      Category("c5", <<Smiley>>), Category("c6", <<Smiley>>),
      Category("c7", <<Smiley>>)>>

\* One category for the copy and toast flows
CardDataset == <<Category("c1", <<CapA, Smiley>>)>>

Names == {"c1", "c2", "c3", "c4", "c5", "c6", "c7"}

QueryAlphabet == {"a", "A", " "}
Query263A == <<"2", "6", "3", "A">>
Query9786 == <<"9", "7", "8", "6">>
Queries == SeqsUpTo(QueryAlphabet, MaxQueryLen) \cup {Query263A, Query9786}
ExportQueries == {<<>>, <<"a">>, <<"z">>}
SectionQueries == {<<>>, <<"S">>}

----------------------------------------------------------------------------
(* The Category Renderer: one CategorySection instance per displayed name *)

Unmounted ==
    [mounted |-> FALSE, isCollapsed |-> FALSE, isVisible |-> FALSE, clicked |-> FALSE]

\* useState(defaultCollapsed), useState(false) at mount
Mounted(defaultCollapsed) ==
    [mounted |-> TRUE, isCollapsed |-> defaultCollapsed, isVisible |-> FALSE,
     clicked |-> FALSE]

\* 0-based index of the category named n in list
IndexOf(list, n) == (CHOOSE i \in 1..Len(list) : list[i].name = n) - 1

Displayed(list) == {list[i].name : i \in 1..Len(list)}

\* defaultCollapsed={activeCategory === "all" && idx > 5}
defaultCollapsed(list, c, n) == c = All /\ IndexOf(list, n) > LastExpandedIdx

\* The render of <main>: keyed children keep their instance (and its state)
\* while their key stays in the list, mount fresh when it enters, unmount
\* when it leaves
Render(old, list, c) ==
    [n \in Names |->
        IF n \in Displayed(list)
        THEN IF old[n].mounted THEN old[n]
             ELSE Mounted(defaultCollapsed(list, c, n))
        ELSE Unmounted]

\* The grid of cards of section n is on screen
GridShown(n) ==
    sections[n].mounted /\ ~sections[n].isCollapsed /\ sections[n].isVisible

----------------------------------------------------------------------------
(* The state after construction *)

NoCall == [called |-> FALSE, msg |-> <<>>, time |-> 0]

NoDoc == [pc |-> "idle", idx |-> 0, startY |-> 0, pages |-> 0, footers |-> {},
          tables |-> <<>>, saveCalled |-> FALSE, saved |-> FALSE,
          notified |-> FALSE, thrown |-> "none"]

InitWith(D, apis) ==
    /\ dataset \in D
    /\ search = <<>>
    /\ activeCategory = All
    /\ toast = Null
    /\ timers = <<>>
    /\ now = 0
    /\ lastCall = NoCall
    /\ sections = Render([n \in Names |-> Unmounted], filter(dataset, <<>>, All), All)
    /\ everVisible = {}
    /\ clicks = 0
    /\ clipboardApi \in apis
    /\ copies = <<>>
    /\ doc = NoDoc

Idle == doc.pc = "idle"

----------------------------------------------------------------------------
(* View state changes *)

\* onChange={(e) => setSearch(e.target.value)} and the clear button
SetSearch(q) ==
    /\ Idle
    /\ search' = q
    /\ sections' = Render(sections, filter(dataset, q, activeCategory), activeCategory)
    /\ UNCHANGED <<dataset, activeCategory, toast, timers, now, lastCall,
                   everVisible, clicks, clipboardApi, copies, doc>>

\* onClick={() => setActiveCategory(...)} of the tabs
SetActiveCategory(c) ==
    /\ Idle
    /\ activeCategory' = c
    /\ sections' = Render(sections, filter(dataset, search, c), c)
    /\ UNCHANGED <<dataset, search, toast, timers, now, lastCall,
                   everVisible, clicks, clipboardApi, copies, doc>>

Tabs == {All} \cup {dataset[i].name : i \in 1..Len(dataset)}

\* onClick={() => setIsCollapsed(!isCollapsed)}
ToggleCollapsed(n) ==
    /\ Idle
    /\ sections[n].mounted
    /\ clicks < MaxClicks
    /\ clicks' = clicks + 1
    /\ sections' = [sections EXCEPT ![n].isCollapsed = ~@, ![n].clicked = TRUE]
    /\ UNCHANGED <<dataset, search, activeCategory, toast, timers, now, lastCall,
                   everVisible, clipboardApi, copies, doc>>

\* The IntersectionObserver callback with entry.isIntersecting: it sets
\* isVisible and disconnects, so it runs at most once per instance
Observe(n) ==
    /\ Idle
    /\ sections[n].mounted
    /\ ~sections[n].isVisible
    /\ sections' = [sections EXCEPT ![n].isVisible = TRUE]
    /\ everVisible' = everVisible \cup {n}
    /\ UNCHANGED <<dataset, search, activeCategory, toast, timers, now, lastCall,
                   clicks, clipboardApi, copies, doc>>

----------------------------------------------------------------------------
(* The Transient Notifier *)

\* showToast: setToast(msg); setTimeout(() => setToast(null), 1500)
showToast(m) ==
    /\ toast' = Message(m)
    /\ timers' = Append(timers, now + ToastDelay)
    /\ lastCall' = [called |-> TRUE, msg |-> m, time |-> now]

\* A timeout callback runs, no earlier than its due time: setToast(null).
\* Timers of equal delay run in the order they were set.
TimerFire ==
    /\ Idle
    /\ timers # <<>>
    /\ Head(timers) <= now
    /\ toast' = Null
    /\ timers' = Tail(timers)
    /\ UNCHANGED <<dataset, search, activeCategory, now, lastCall, sections,
                   everVisible, clicks, clipboardApi, copies, doc>>

\* Time passes
Tick ==
    /\ Idle
    /\ now + TickStep <= MaxTime
    /\ now' = now + TickStep
    /\ UNCHANGED <<dataset, search, activeCategory, toast, timers, lastCall,
                   sections, everVisible, clicks, clipboardApi, copies, doc>>

----------------------------------------------------------------------------
(* The Clipboard Writer and the character cards *)

\* fallbackCopy(text): the text handed to the textarea and execCommand("copy")
fallbackCopy(copy, text) == [copy EXCEPT !.fallback = Append(@, text)]

\* copyToClipboard(text), up to its return: the primary write is started when
\* navigator.clipboard.writeText exists, the fallback runs at once otherwise
copyToClipboard(text) ==
    LET attempt == [text |-> text, primary |-> "pending", fallback |-> <<>>,
                    notified |-> FALSE]
    IN  IF clipboardApi
        THEN attempt
        ELSE fallbackCopy([attempt EXCEPT !.primary = "unavailable"], text)

CopiedMessage(text) == <<"Copied: ">> \o text

\* A card's onClick: copyToClipboard(text); onCopied(`Copied: ${text}`)
CopyClick(n, text) ==
    /\ Idle
    /\ GridShown(n)
    /\ Len(copies) < MaxCopies
    /\ Len(timers) < MaxTimers
    /\ copies' = Append(copies, [copyToClipboard(text) EXCEPT !.notified = TRUE])
    /\ showToast(CopiedMessage(text))
    /\ UNCHANGED <<dataset, search, activeCategory, now, sections, everVisible,
                   clicks, clipboardApi, doc>>

\* The items of the displayed category named n
ItemsShown(n) ==
    LET list == filteredCategories
    IN  IF n \in Displayed(list) THEN list[IndexOf(list, n) + 1].items ELSE <<>>

\* Primary interaction: the glyph
CopyGlyph(n, i) ==
    /\ i \in 1..Len(ItemsShown(n))
    /\ CopyClick(n, ItemsShown(n)[i].char)

\* Secondary interaction: the markup encoding
CopyEntity(n, i) ==
    /\ i \in 1..Len(ItemsShown(n))
    /\ CopyClick(n, entityCode(ItemsShown(n)[i]))

\* The promise of writeText is fulfilled
ClipboardResolve(k) ==
    /\ Idle
    /\ k \in 1..Len(copies)
    /\ copies[k].primary = "pending"
    /\ copies' = [copies EXCEPT ![k].primary = "ok"]
    /\ UNCHANGED <<dataset, search, activeCategory, toast, timers, now, lastCall,
                   sections, everVisible, clicks, clipboardApi, doc>>

\* A slip: the rejection is swallowed without the fallback
ClipboardRejectSwallowed(k) ==
    /\ Idle
    /\ k \in 1..Len(copies)
    /\ copies[k].primary = "pending"
    /\ copies' = [copies EXCEPT ![k].primary = "failed"]
    /\ UNCHANGED <<dataset, search, activeCategory, toast, timers, now, lastCall,
                   sections, everVisible, clicks, clipboardApi, doc>>

\* The promise of writeText is rejected: .catch(() => { fallbackCopy(text) })
ClipboardReject(k) ==
    /\ Idle
    /\ k \in 1..Len(copies)
    /\ copies[k].primary = "pending"
    /\ copies' = [copies EXCEPT
                    ![k] = fallbackCopy([@ EXCEPT !.primary = "failed"], @.text)]
    /\ UNCHANGED <<dataset, search, activeCategory, toast, timers, now, lastCall,
                   sections, everVisible, clicks, clipboardApi, doc>>

----------------------------------------------------------------------------
(* The Document Exporter: exportPDF, one step per statement group.  The     *)
(* handler runs to completion: while it runs no other action is enabled.    *)

\* categoriesToExport
categoriesToExport ==
    IF activeCategory = All
    THEN dataset
    ELSE SelectSeq(dataset, LAMBDA c : c.name = activeCategory)

\* The item predicate written out again inside exportPDF
exportMatches(item, q) ==
    \/ includes(toLowerCase(item.description), toLowerCase(q))
    \/ includes(item.char, q)
    \/ includes(entityCode(item), toLowerCase(q))
    \/ includes(toString(item.code), toLowerCase(q))

\* const items = search ? category.items.filter(...) : category.items
exportItems(category, q) ==
    IF q # <<>>
    THEN SelectSeq(category.items, LAMBDA item : exportMatches(item, q))
    ELSE category.items

\* Where a laid-out table may end on its last page (lastAutoTable.finalY)
FinalYs == {100, 265}

\* The click on Export PDF: new jsPDF (one page), the title block, startY = 38
ExportBegin ==
    /\ Idle
    /\ Len(timers) < MaxTimers
    /\ doc' = [NoDoc EXCEPT !.pc = "loop", !.idx = 1, !.startY = FirstStartY,
                            !.pages = 1]
    /\ UNCHANGED <<dataset, search, activeCategory, toast, timers, now, lastCall,
                   sections, everVisible, clicks, clipboardApi, copies>>

InLoop == doc.pc = "loop" /\ doc.idx <= Len(categoriesToExport)

CurrentItems == exportItems(categoriesToExport[doc.idx], search)

\* if (items.length === 0) continue
ExportSkip ==
    /\ InLoop
    /\ Len(CurrentItems) = 0
    /\ doc' = [doc EXCEPT !.idx = @ + 1]
    /\ UNCHANGED <<dataset, search, activeCategory, toast, timers, now, lastCall,
                   sections, everVisible, clicks, clipboardApi, copies>>

\* if (startY > 270) { doc.addPage(); startY = 15 }
PagesAtHeading == IF doc.startY > PageBreakY THEN doc.pages + 1 ELSE doc.pages
HeadingY == IF doc.startY > PageBreakY THEN TopMarginY ELSE doc.startY

\* One category: page break, heading, autoTable laying the table over n pages
\* (the current one and n - 1 added ones), didDrawPage writing the footer of
\* each with doc.getNumberOfPages() as the page number, then the new startY
ExportTable(n, finalY) ==
    /\ InLoop
    /\ Len(CurrentItems) > 0
    /\ doc' = [doc EXCEPT
            !.idx = @ + 1,
            !.pages = PagesAtHeading + n - 1,
            !.footers = @ \cup (PagesAtHeading .. (PagesAtHeading + n - 1)),
            !.tables = Append(@, [name |-> categoriesToExport[doc.idx].name,
                                  items |-> CurrentItems,
                                  startY |-> HeadingY + HeadingGap]),
            !.startY = finalY + TableGap]
    /\ UNCHANGED <<dataset, search, activeCategory, toast, timers, now, lastCall,
                   sections, everVisible, clicks, clipboardApi, copies>>

\* A slip: the failure caught and the loop continued
ExportTableFailsCaught ==
    /\ InLoop
    /\ Len(CurrentItems) > 0
    /\ doc' = [doc EXCEPT !.idx = @ + 1, !.pages = PagesAtHeading,
                          !.thrown = "layout"]
    /\ UNCHANGED <<dataset, search, activeCategory, toast, timers, now, lastCall,
                   sections, everVisible, clicks, clipboardApi, copies>>

\* autoTable throws: nothing in exportPDF catches it, the handler ends
ExportTableFails ==
    /\ InLoop
    /\ Len(CurrentItems) > 0
    /\ doc' = [doc EXCEPT !.pc = "thrown", !.pages = PagesAtHeading,
                          !.thrown = "layout"]
    /\ UNCHANGED <<dataset, search, activeCategory, toast, timers, now, lastCall,
                   sections, everVisible, clicks, clipboardApi, copies>>

AfterLoop == doc.pc = "loop" /\ doc.idx > Len(categoriesToExport)

\* doc.save("unicode-emoji-reference.pdf") returns
ExportSave ==
    /\ AfterLoop
    /\ doc' = [doc EXCEPT !.pc = "saved", !.saveCalled = TRUE, !.saved = TRUE]
    /\ UNCHANGED <<dataset, search, activeCategory, toast, timers, now, lastCall,
                   sections, everVisible, clicks, clipboardApi, copies>>

\* doc.save throws
ExportSaveFails ==
    /\ AfterLoop
    /\ doc' = [doc EXCEPT !.pc = "thrown", !.saveCalled = TRUE, !.thrown = "save"]
    /\ UNCHANGED <<dataset, search, activeCategory, toast, timers, now, lastCall,
                   sections, everVisible, clicks, clipboardApi, copies>>

PdfMessage == <<"PDF downloaded!">>

\* showToast("PDF downloaded!")
ExportNotify ==
    /\ doc.pc = "saved"
    /\ doc' = [doc EXCEPT !.pc = "returned", !.notified = TRUE]
    /\ showToast(PdfMessage)
    /\ UNCHANGED <<dataset, search, activeCategory, now, sections, everVisible,
                   clicks, clipboardApi, copies>>

\* The handler has returned or thrown: its locals are gone
ExportReturn ==
    /\ doc.pc \in {"returned", "thrown"}
    /\ doc' = NoDoc
    /\ UNCHANGED <<dataset, search, activeCategory, toast, timers, now, lastCall,
                   sections, everVisible, clicks, clipboardApi, copies>>

----------------------------------------------------------------------------
(* Specifications *)

Init == InitWith(Datasets, {TRUE})

\* Searching, selecting and exporting over every dataset and query
Next ==
    \/ \E q \in Queries : SetSearch(q)
    \/ \E c \in Tabs : SetActiveCategory(c)
    \/ ExportBegin
    \/ ExportSkip
    \/ ExportTable(1, 100)
    \/ ExportSave
    \/ ExportNotify
    \/ ExportReturn

Spec == Init /\ [][Next]_vars

InitExport == InitWith({ExportDataset}, {TRUE})

\* The exporter against every outcome of the layout engine and of the save
NextExport ==
    \/ \E q \in ExportQueries : SetSearch(q)
    \/ \E c \in Tabs : SetActiveCategory(c)
    \/ ExportBegin
    \/ ExportSkip
    \/ \E n \in 1..MaxTablePages, y \in FinalYs : ExportTable(n, y)
    \/ ExportTableFails
    \/ ExportSave
    \/ ExportSaveFails
    \/ ExportNotify
    \/ ExportReturn
    \/ Tick
    \/ TimerFire

SpecExport == InitExport /\ [][NextExport]_vars

InitSections == InitWith({SevenCategories}, {TRUE})

\* The renderer: queries, tabs, header clicks and observer callbacks
NextSections ==
    \/ \E q \in SectionQueries : SetSearch(q)
    \/ \E c \in Tabs : SetActiveCategory(c)
    \/ \E n \in Names : ToggleCollapsed(n)
    \/ \E n \in Names : Observe(n)

SpecSections == InitSections /\ [][NextSections]_vars

InitNotify == InitWith({CardDataset}, BOOLEAN)

\* Copy clicks, the clipboard's promises, the toast and its timers
NextNotify ==
    \/ \E n \in Names : Observe(n)
    \/ \E n \in Names, i \in 1..MaxItems : CopyGlyph(n, i)
    \/ \E n \in Names, i \in 1..MaxItems : CopyEntity(n, i)
    \/ \E k \in 1..MaxCopies : ClipboardResolve(k)
    \/ \E k \in 1..MaxCopies : ClipboardReject(k)
    \/ Tick
    \/ TimerFire

SpecNotify == InitNotify /\ [][NextNotify]_vars

----------------------------------------------------------------------------
(* Properties *)

\* C1: within 1500 time units of the most recent showToast call the displayed
\* message is that call's message: no earlier call's delayed clear sets the
\* toast to null (or leaves another message) in that interval.
C1_LatestMessageShown ==
    (lastCall.called /\ now < lastCall.time + ToastDelay)
        => toast = Message(lastCall.msg)

\* The (category, items) pairs of a sequence of categories or tables
Pairs(list) == [i \in 1..Len(list) |-> <<list[i].name, list[i].items>>]

\* C2: when exportPDF reaches the save, the tables it has built are, in order,
\* the categories and items of filteredCategories for the same query and
\* selector.
C2_ExportEqualsFilter ==
    doc.pc = "saved" => Pairs(doc.tables) = Pairs(filteredCategories)

\* The match predicate of the Filter Engine's contract, for the normalised
\* (lower-cased, trimmed) query ql and the raw query q
Decimal9786 == <<"9", "7", "8", "6">>
DecimalOf(item) ==
    CASE item.code = 9786 -> Decimal9786
      [] item.code = 65 -> <<"6", "5">>
      [] item.code = 32 -> <<"3", "2">>
SatisfiesPredicate(item, q, ql) ==
    \/ includes(toLowerCase(item.description), ql)
    \/ includes(item.char, q)
    \/ includes(<<"&", "#">> \o DecimalOf(item) \o <<";">>, ql)
    \/ includes(DecimalOf(item), ql)

\* C3: every item of every category of filter(D, q, "all") satisfies the match
\* predicate when the normalised query is non-empty, and no category of the
\* result is empty, whatever the query.
C3_FilterSound ==
    LET result == filter(dataset, search, All)
        ql == trim(toLowerCase(search))
    IN  \A i \in 1..Len(result) :
            /\ Len(result[i].items) > 0
            /\ ql # <<>> =>
                   \A j \in 1..Len(result[i].items) :
                       SatisfiesPredicate(result[i].items[j], search, ql)

\* C3 witness: a query with surrounding space and an upper-case letter keeps
\* one item of a two-item category and drops the other category whole.
C3_Witness ==
    /\ search = <<" ", "A">>
    /\ Len(dataset[1].items) = 2
    /\ Len(dataset[2].items) = 1
    /\ Len(filter(dataset, search, All)) = 1
    /\ Len(filter(dataset, search, All)[1].items) = 1

\* Every character with code point 9786 whose description does not contain
\* the query, in a category the selector admits, is in the displayed result
Keeps9786(q) ==
    \A i \in 1..Len(dataset) :
        \A j \in 1..Len(dataset[i].items) :
            LET item == dataset[i].items[j]
            IN  (/\ activeCategory \in {All, dataset[i].name}
                 /\ item.code = 9786
                 /\ ~includes(item.description, q))
                => \E k \in 1..Len(filteredCategories) :
                       /\ filteredCategories[k].name = dataset[i].name
                       /\ \E m \in 1..Len(filteredCategories[k].items) :
                              filteredCategories[k].items[m] = item

\* C4 as stated: with the query "263A" the character with code point 9786 is
\* kept although its description does not contain "263A".
C4_Query263AKept == search = Query263A => Keeps9786(Query263A)

\* C4 amended: with the query "9786", the decimal form of the code point, the
\* character with code point 9786 is kept although its description does not
\* contain the query.
C4_Query9786Kept == search = Query9786 => Keeps9786(Query9786)

\* C4 witness: the smiley is displayed for the query "9786".
C4_Witness ==
    /\ search = Query9786
    /\ Len(filteredCategories) > 0
    /\ filteredCategories[1].items = <<Smiley>>

\* C5: filtering the displayed result again with the same query and selector
\* gives the displayed result: same categories, same items, same order.
C5_FilterIdempotent ==
    filter(filteredCategories, search, activeCategory) = filteredCategories

\* C5 witness: a query that has dropped an item of the first category and a
\* selector that has dropped the second category.
C5_Witness ==
    /\ trim(toLowerCase(search)) # <<>>
    /\ activeCategory = "c1"
    /\ Len(dataset[2].items) = 1
    /\ Len(filteredCategories) = 1
    /\ Len(dataset[1].items) = 2
    /\ Len(filteredCategories[1].items) = 1

\* C6: when exportPDF reaches the save, every page of the document carries a
\* footer.
C6_EveryPageHasFooter ==
    doc.saved => \A p \in 1..doc.pages : p \in doc.footers

\* C7: a layout failure ends exportPDF by propagating, with the save never
\* invoked and the "PDF downloaded!" notification never raised; and the
\* notification is raised only after the save has returned.
C7_FailureNotSaved ==
    /\ doc.thrown = "layout" =>
           doc.pc = "thrown" /\ ~doc.saveCalled /\ ~doc.notified
    /\ doc.notified =>
           doc.saved /\ lastCall.called /\ lastCall.msg = PdfMessage

\* C7 witness: the layout of the second table fails after the first was laid
\* out.
C7_Witness ==
    doc.pc = "thrown" /\ doc.thrown = "layout" /\ Len(doc.tables) = 1

\* C8: every copy click has raised its notification, and every click whose
\* clipboard write was unavailable or has failed has run the fallback once,
\* with the clicked text.
C8_FallbackAndNotify ==
    \A k \in 1..Len(copies) :
        /\ copies[k].notified
        /\ copies[k].primary \in {"unavailable", "failed"} =>
               copies[k].fallback = <<copies[k].text>>

\* C8 witness: a write has failed after the click was notified and after a
\* later click replaced the toast; its fallback has run with its text.
C8_Witness ==
    /\ Len(copies) = 2
    /\ copies[1].text # copies[2].text
    /\ copies[1].primary = "failed"
    /\ copies[1].fallback = <<copies[1].text>>
    /\ copies[1].notified
    /\ toast = Message(CopiedMessage(copies[2].text))

\* C9: a category whose section has once become visible has a visible
\* section whenever it is displayed later.
C9_VisibleNeverReverts ==
    \A n \in everVisible : sections[n].mounted => sections[n].isVisible

\* C10: a displayed section whose header was never clicked is collapsed exactly
\* when "all" is active and the section is beyond the sixth position of the
\* displayed list.
C10_UnclickedFollowsDefault ==
    \A n \in Names :
        (sections[n].mounted /\ ~sections[n].clicked) =>
            (sections[n].isCollapsed
                <=> defaultCollapsed(filteredCategories, activeCategory, n))

====
